---- MODULE Spec2Model ----
(***************************************************************************)
(* Model of the PDF analyzer (pdf_analyzer.py): the text-analysis          *)
(* functions analyze_text, find_key_sections, extract_numbers_and_dates,   *)
(* the report writer generate_report, save_extracted_text and the command  *)
(* line driver main.                                                       *)
(*                                                                         *)
(* A text is a sequence of one-character strings.  Python's character      *)
(* offsets are 0-based; sequence indices here are 1-based.                 *)
(***************************************************************************)
EXTENDS Integers, Sequences, FiniteSets, TLC

\* ---------------------------------------------------------------- bounds
\* Largest number of text fragments concatenated into one input text.
MaxChunks == 3

\* Largest number of pages the extractor reads from one document.
MaxPages == 2

\* ------------------------------------------------------ program constants
\* Counter(...).most_common(30)
TopN == 30

\* list(years)[:20]
YearsCap == 20

\* text[:500]
PreviewLen == 500

\* A value no function returns: "not computed yet" / Python's None.
None == "None"

\* ------------------------------------------------------ character classes
Digits == {"0", "1", "2", "3", "4", "5", "6", "7", "8", "9"}

LowerSeq == <<"a", "b", "c", "d", "e", "f", "g", "h", "i", "j", "k", "l", "m", "n", "o", "p", "q", "r", "s", "t", "u", "v", "w", "x", "y", "z">>

UpperSeq == <<"A", "B", "C", "D", "E", "F", "G", "H", "I", "J", "K", "L", "M", "N", "O", "P", "Q", "R", "S", "T", "U", "V", "W", "X", "Y", "Z">>

Range(s) == {s[i] : i \in 1..Len(s)}

Letters == Range(LowerSeq) \cup Range(UpperSeq)

WordChars == Digits \cup Letters \cup {"_"}

SpaceChars == {" ", "\n", "\t"}

\* the class \w of the re module, on the ASCII letters, digits and "_"
IsWordChar(c) == c \in WordChars

\* the class \s, and the characters str.split() and str.strip() treat as blank
IsSpace(c) == c \in SpaceChars

LowerMap ==
    [c \in Range(UpperSeq) |-> LowerSeq[CHOOSE i \in 1..Len(UpperSeq) : UpperSeq[i] = c]]

\* str.lower() on one character
LowerChar(c) == IF c \in DOMAIN LowerMap THEN LowerMap[c] ELSE c

\* str.lower()
lower(s) == [i \in 1..Len(s) |-> LowerChar(s[i])]

\* bool(s.strip()): the string has a character that is not whitespace
strip_nonempty(s) == \E i \in 1..Len(s) : ~IsSpace(s[i])

\* s.strip()
strip(s) ==
    IF ~strip_nonempty(s) THEN <<>>
    ELSE LET a == CHOOSE i \in 1..Len(s) :
                     ~IsSpace(s[i]) /\ \A j \in 1..(i - 1) : IsSpace(s[j])
             b == CHOOSE i \in 1..Len(s) :
                     ~IsSpace(s[i]) /\ \A j \in (i + 1)..Len(s) : IsSpace(s[j])
         IN SubSeq(s, a, b)

\* the indices a..b as a sequence
Indices(a, b) == [i \in 1..(b - a + 1) |-> a + i - 1]

\* the first index from i on whose character is in the set, Len(t) + 1 if none
NextIn(t, i, set) ==
    CHOOSE j \in i..(Len(t) + 1) :
        /\ j = Len(t) + 1 \/ t[j] \in set
        /\ \A k \in i..(j - 1) : t[k] \notin set

\* text.split(): the maximal runs of non-whitespace characters
split(t) ==
    LET starts == SelectSeq(Indices(1, Len(t)),
                            LAMBDA i : ~IsSpace(t[i]) /\ (i = 1 \/ IsSpace(t[i - 1])))
    IN [k \in 1..Len(starts) |->
          SubSeq(t, starts[k], NextIn(t, starts[k], SpaceChars) - 1)]

\* re.split(r'[.!?]+', text): the pieces between the runs of separator
\* characters, the empty piece before a leading and after a trailing run included
re_split(t, seps) ==
    LET starts == SelectSeq(Indices(1, Len(t) + 1),
                            LAMBDA i : /\ i = 1 \/ t[i - 1] \in seps
                                       /\ i = 1 \/ i = Len(t) + 1 \/ t[i] \notin seps)
    IN [k \in 1..Len(starts) |-> SubSeq(t, starts[k], NextIn(t, starts[k], seps) - 1)]

\* the first index from i on where two newlines stand, Len(t) + 1 if nowhere
NextBlankLine(t, i) ==
    CHOOSE j \in i..(Len(t) + 1) :
        /\ j = Len(t) + 1 \/ (j < Len(t) /\ t[j] = "\n" /\ t[j + 1] = "\n")
        /\ \A k \in i..(j - 1) : ~(k < Len(t) /\ t[k] = "\n" /\ t[k + 1] = "\n")

RECURSIVE SplitBlankFrom(_, _)
SplitBlankFrom(t, i) ==
    LET j == NextBlankLine(t, i)
    IN IF j > Len(t) THEN <<SubSeq(t, i, Len(t))>>
       ELSE <<SubSeq(t, i, j - 1)>> \o SplitBlankFrom(t, j + 2)

\* text.split('\n\n')
split_blank_lines(t) == SplitBlankFrom(t, 1)

\* len([s for s in pieces if s.strip()])
count_nonblank(pieces) == Cardinality({i \in 1..Len(pieces) : strip_nonempty(pieces[i])})

IsPunct(c) == ~IsWordChar(c) /\ ~IsSpace(c)

\* re.sub(r'[^\w\s]', '', word)
strip_punct(word) == SelectSeq(word, LAMBDA c : ~IsPunct(c))

\* ------------------------------------------------------------ analyze_text
\* words = text.split(); word_count = len(words)
word_count(t) == Len(split(t))

\* char_count = len(text)
char_count(t) == Len(t)

\* char_count_no_spaces = len(text.replace(' ', ''))
char_count_no_spaces(t) == Len(SelectSeq(t, LAMBDA c : c # " "))

\* sentence_count without the filter on s.strip(): len(sentences)
sentence_count_unfiltered(t) == Len(re_split(t, {".", "!", "?"}))

\* sentences = re.split(r'[.!?]+', text)
\* sentence_count = len([s for s in sentences if s.strip()])
sentence_count(t) == count_nonblank(re_split(t, {".", "!", "?"}))

\* paragraphs = text.split('\n\n')
\* paragraph_count = len([p for p in paragraphs if p.strip()])
paragraph_count(t) == count_nonblank(split_blank_lines(t))

\* clean_words = [re.sub(r'[^\w\s]', '', word).lower()
\*                for word in words if word.strip()]
clean_words(t) ==
    LET words == SelectSeq(split(t), LAMBDA w : strip_nonempty(w))
    IN [i \in 1..Len(words) |-> lower(strip_punct(words[i]))]

\* Counter(items): the distinct items in first-seen order, each with its count
\* (a dict keeps insertion order), as a sequence of <<item, count>>
Counter(items) ==
    LET firsts == SelectSeq([i \in 1..Len(items) |-> i],
                            LAMBDA i : \A j \in 1..(i - 1) : items[j] # items[i])
    IN [k \in 1..Len(firsts) |->
          <<items[firsts[k]],
            Cardinality({j \in 1..Len(items) : items[j] = items[firsts[k]]})>>]

stop_words == {
    <<"t", "h", "e">>, <<"a">>, <<"a", "n">>, <<"a", "n", "d">>,
    <<"o", "r">>, <<"b", "u", "t">>, <<"i", "n">>, <<"o", "n">>,
    <<"a", "t">>, <<"t", "o">>, <<"f", "o", "r">>, <<"o", "f">>,
    <<"w", "i", "t", "h">>, <<"i", "s">>, <<"w", "a", "s">>, <<"a", "r", "e">>,
    <<"w", "e", "r", "e">>, <<"b", "e">>, <<"b", "e", "e", "n">>, <<"b", "e", "i", "n", "g">>,
    <<"h", "a", "v", "e">>, <<"h", "a", "s">>, <<"h", "a", "d">>, <<"d", "o">>,
    <<"d", "o", "e", "s">>, <<"d", "i", "d">>, <<"w", "i", "l", "l">>, <<"w", "o", "u", "l", "d">>,
    <<"c", "o", "u", "l", "d">>, <<"s", "h", "o", "u", "l", "d">>, <<"m", "a", "y">>, <<"m", "i", "g", "h", "t">>,
    <<"c", "a", "n">>, <<"t", "h", "i", "s">>, <<"t", "h", "a", "t">>, <<"t", "h", "e", "s", "e">>,
    <<"t", "h", "o", "s", "e">>, <<"i">>, <<"y", "o", "u">>, <<"h", "e">>,
    <<"s", "h", "e">>, <<"i", "t">>, <<"w", "e">>, <<"t", "h", "e", "y">>,
    <<"t", "h", "e", "m">>, <<"t", "h", "e", "i", "r">>, <<"w", "h", "a", "t">>, <<"w", "h", "i", "c", "h">>,
    <<"w", "h", "o">>, <<"w", "h", "e", "n">>, <<"w", "h", "e", "r", "e">>, <<"w", "h", "y">>,
    <<"h", "o", "w">>, <<"a", "l", "l">>, <<"e", "a", "c", "h">>, <<"e", "v", "e", "r", "y">>,
    <<"b", "o", "t", "h">>, <<"f", "e", "w">>, <<"m", "o", "r", "e">>, <<"m", "o", "s", "t">>,
    <<"o", "t", "h", "e", "r">>, <<"s", "o", "m", "e">>, <<"s", "u", "c", "h">>, <<"n", "o">>,
    <<"n", "o", "r">>, <<"n", "o", "t">>, <<"o", "n", "l", "y">>, <<"o", "w", "n">>,
    <<"s", "a", "m", "e">>, <<"s", "o">>, <<"t", "h", "a", "n">>, <<"t", "o", "o">>,
    <<"v", "e", "r", "y">>, <<"a", "s">>, <<"f", "r", "o", "m">>, <<"b", "y">>,
    <<>>
    }

\* meaningful_words without the stop-word test
meaningful_words_by_length(word_freq) == SelectSeq(word_freq, LAMBDA e : Len(e[1]) > 2)

\* {word: count for word, count in word_freq.items()
\*  if word not in stop_words and len(word) > 2}
meaningful_words(word_freq) ==
    SelectSeq(word_freq, LAMBDA e : e[1] \notin stop_words /\ Len(e[1]) > 2)

RECURSIVE InsertByCountUnstable(_, _)
\* InsertByCount as an unstable sort would do it: e goes before the entries
\* with the same count
InsertByCountUnstable(sorted, e) ==
    IF sorted = <<>> THEN <<e>>
    ELSE IF Head(sorted)[2] > e[2]
         THEN <<Head(sorted)>> \o InsertByCountUnstable(Tail(sorted), e)
         ELSE <<e>> \o sorted

RECURSIVE InsertByCount(_, _)
\* puts e behind every entry whose count is at least e's count
InsertByCount(sorted, e) ==
    IF sorted = <<>> THEN <<e>>
    ELSE IF Head(sorted)[2] >= e[2]
         THEN <<Head(sorted)>> \o InsertByCount(Tail(sorted), e)
         ELSE <<e>> \o sorted

RECURSIVE SortByCount(_, _)
SortByCount(entries, sorted) ==
    IF entries = <<>> THEN sorted
    ELSE SortByCount(Tail(entries), InsertByCount(sorted, Head(entries)))

\* Counter.most_common(n) = heapq.nlargest(n, items, key=count), which equals
\* sorted(items, key=count, reverse=True)[:n]: a stable sort by falling count
most_common(entries, n) ==
    LET sorted == SortByCount(entries, <<>>)
    IN SubSeq(sorted, 1, IF Len(sorted) < n THEN Len(sorted) ELSE n)

RECURSIVE SumLen(_)
SumLen(ws) == IF ws = <<>> THEN 0 ELSE Len(Head(ws)) + SumLen(Tail(ws))

\* a quotient a / b of two integers, kept as the pair it is computed from;
\* the literal 0 of the else branches is 0 / 1
Quot(a, b) == [num |-> a, den |-> b]

\* equality of two quotients as numbers
QuotEq(x, y) == x.num * y.den = y.num * x.den

\* len(set(clean_words))
unique_words(cw) == Cardinality(Range(cw))

\* total_word_length / word_list_length if word_list_length > 0 else 0
avg_word_length(cw) == IF Len(cw) > 0 THEN Quot(SumLen(cw), Len(cw)) ELSE Quot(0, 1)

\* avg_sentence_length with the missing sentences replaced by one sentence
avg_sentence_length_unguarded(wc, sc) == Quot(wc, IF sc > 0 THEN sc ELSE 1)

\* word_count / sentence_count if sentence_count > 0 else 0
avg_sentence_length(wc, sc) == IF sc > 0 THEN Quot(wc, sc) ELSE Quot(0, 1)

analyze_text(t) ==
    LET cw == clean_words(t)
        word_freq == Counter(cw)
    IN [word_count |-> word_count(t),
        char_count |-> char_count(t),
        char_count_no_spaces |-> char_count_no_spaces(t),
        sentence_count |-> sentence_count(t),
        paragraph_count |-> paragraph_count(t),
        unique_words |-> unique_words(cw),
        top_words |-> most_common(meaningful_words(word_freq), TopN),
        avg_word_length |-> avg_word_length(cw),
        avg_sentence_length |-> avg_sentence_length(word_count(t), sentence_count(t))]

\* -------------------------------------------------------- find_key_sections
SectionNames ==
    <<"introduction", "methodology", "results", "conclusion", "references",
      "acknowledgments">>

\* The alternatives of each pattern, in the order the regex tries them.  An
\* optional final s ("acknowledgments?") is greedy: the form with the s is
\* tried before the form without it.
patterns ==
    [introduction |-> <<<<"i", "n", "t", "r", "o", "d", "u", "c", "t", "i", "o", "n">>, <<"o", "v", "e", "r", "v", "i", "e", "w">>, <<"a", "b", "s", "t", "r", "a", "c", "t">>>>,
     methodology |-> <<<<"m", "e", "t", "h", "o", "d">>, <<"m", "e", "t", "h", "o", "d", "o", "l", "o", "g", "y">>, <<"a", "p", "p", "r", "o", "a", "c", "h">>, <<"p", "r", "o", "c", "e", "d", "u", "r", "e">>>>,
     results |-> <<<<"r", "e", "s", "u", "l", "t", "s">>, <<"f", "i", "n", "d", "i", "n", "g", "s">>, <<"o", "u", "t", "c", "o", "m", "e", "s">>>>,
     conclusion |-> <<<<"c", "o", "n", "c", "l", "u", "s", "i", "o", "n">>, <<"f", "i", "n", "a", "l", " ", "r", "e", "m", "a", "r", "k", "s">>, <<"c", "l", "o", "s", "i", "n", "g">>>>,
     references |-> <<<<"r", "e", "f", "e", "r", "e", "n", "c", "e", "s">>, <<"b", "i", "b", "l", "i", "o", "g", "r", "a", "p", "h", "y">>, <<"c", "i", "t", "a", "t", "i", "o", "n", "s">>, <<"w", "o", "r", "k", "s", " ", "c", "i", "t", "e", "d">>>>,
     acknowledgments |-> <<<<"a", "c", "k", "n", "o", "w", "l", "e", "d", "g", "m", "e", "n", "t", "s">>, <<"a", "c", "k", "n", "o", "w", "l", "e", "d", "g", "m", "e", "n", "t">>,
                           <<"a", "c", "k", "n", "o", "w", "l", "e", "d", "g", "e", "m", "e", "n", "t", "s">>, <<"a", "c", "k", "n", "o", "w", "l", "e", "d", "g", "e", "m", "e", "n", "t">>>>]

\* LiteralAt without the (?i) flag: the case has to agree
LiteralAtCaseSensitive(lit, t, p) ==
    /\ p + Len(lit) - 1 <= Len(t)
    /\ \A k \in 1..Len(lit) : t[p + k - 1] = lit[k]

\* one literal alternative matches at index p, ignoring case ((?i))
LiteralAt(lit, t, p) ==
    /\ p + Len(lit) - 1 <= Len(t)
    /\ \A k \in 1..Len(lit) : LowerChar(t[p + k - 1]) = lit[k]

\* the length the pattern matches at index p: that of the first alternative
\* that matches there, 0 when none does
PatternLenAt(alts, t, p) ==
    IF \E a \in 1..Len(alts) : LiteralAt(alts[a], t, p)
    THEN Len(alts[CHOOSE a \in 1..Len(alts) :
                    /\ LiteralAt(alts[a], t, p)
                    /\ \A b \in 1..(a - 1) : ~LiteralAt(alts[b], t, p)])
    ELSE 0

RECURSIVE FindIterFrom(_, _, _)
\* starts: the indices where the pattern matches, lens: what it matches there
FindIterFrom(starts, lens, p) ==
    IF \A q \in starts : q < p THEN <<>>
    ELSE LET q == CHOOSE q \in starts : q >= p /\ \A r \in starts : r >= p => q <= r
         IN <<q - 1>> \o FindIterFrom(starts, lens, q + lens[q])

\* positions = [match.start() for match in re.finditer(pattern, text)]:
\* the 0-based offsets of the matches found scanning left to right, each
\* search resuming at the end of the previous match
positions(alts, t) ==
    LET lens == [p \in 1..Len(t) |-> PatternLenAt(alts, t, p)]
    IN FindIterFrom({p \in 1..Len(t) : lens[p] > 0}, lens, 1)

section_record(alts, t) ==
    LET pos == positions(alts, t)
    IN IF pos # <<>>
       THEN [found |-> TRUE, occurrences |-> Len(pos), first_position |-> pos[1]]
       ELSE [found |-> FALSE]

find_key_sections(t) ==
    [name \in Range(SectionNames) |-> section_record(patterns[name], t)]

\* ------------------------------------------------- extract_numbers_and_dates
CharAt(t, i) == IF i >= 1 /\ i <= Len(t) THEN t[i] ELSE ""

IsDigitAt(t, i) == CharAt(t, i) \in Digits

IsWordAt(t, i) == i >= 1 /\ i <= Len(t) /\ IsWordChar(t[i])

\* \b between index i - 1 and index i
Boundary(t, i) == IsWordAt(t, i - 1) # IsWordAt(t, i)

RECURSIVE DigitRun(_, _)
\* the number of consecutive digits starting at index i
DigitRun(t, i) == IF IsDigitAt(t, i) THEN 1 + DigitRun(t, i + 1) ELSE 0

\* %?\b with the previous item ending before index q: the index after the
\* match, 0 when there is none
PercentTail(t, q) ==
    IF CharAt(t, q) = "%" /\ Boundary(t, q + 1) THEN q + 1
    ELSE IF Boundary(t, q) THEN q
    ELSE 0

RECURSIVE FractionTry(_, _, _)
\* \.\d+ with m digits, then fewer (backtracking), the dot being at index q
FractionTry(t, q, m) ==
    IF m = 0 THEN 0
    ELSE LET e == PercentTail(t, q + 1 + m)
         IN IF e # 0 THEN e ELSE FractionTry(t, q, m - 1)

\* (?:\.\d+)?%?\b from index q: the fraction is tried first, then skipped
AfterInteger(t, q) ==
    LET f == IF CharAt(t, q) = "." THEN FractionTry(t, q, DigitRun(t, q + 1)) ELSE 0
    IN IF f # 0 THEN f ELSE PercentTail(t, q)

RECURSIVE NumberTry(_, _, _)
\* \d+ with n digits, then fewer (backtracking)
NumberTry(t, p, n) ==
    IF n = 0 THEN 0
    ELSE LET e == AfterInteger(t, p + n)
         IN IF e # 0 THEN e ELSE NumberTry(t, p, n - 1)

\* \b\d+(?:\.\d+)?%?\b at index p: the index after the match, 0 for no match
NumberAt(t, p) == IF Boundary(t, p) THEN NumberTry(t, p, DigitRun(t, p)) ELSE 0

IsSepAt(t, i) == CharAt(t, i) \in {"/", "-"}

\* \b\d{a}[/-]\d{b}[/-]\d{c}\b at index p: the index after it, 0 for no match
DateShapeAt(t, p, a, b, c) ==
    IF /\ Boundary(t, p)
       /\ \A i \in p..(p + a - 1) : IsDigitAt(t, i)
       /\ IsSepAt(t, p + a)
       /\ \A i \in (p + a + 1)..(p + a + b) : IsDigitAt(t, i)
       /\ IsSepAt(t, p + a + b + 1)
       /\ \A i \in (p + a + b + 2)..(p + a + b + c + 1) : IsDigitAt(t, i)
       /\ Boundary(t, p + a + b + c + 2)
    THEN p + a + b + c + 2
    ELSE 0

RECURSIVE FirstShape(_, _, _)
\* the first of the digit counts, in the order the regex tries them, that match
FirstShape(t, p, shapes) ==
    IF shapes = <<>> THEN 0
    ELSE LET s == Head(shapes)
             e == DateShapeAt(t, p, s[1], s[2], s[3])
         IN IF e # 0 THEN e ELSE FirstShape(t, p, Tail(shapes))

\* \b\d{1,2}[/-]\d{1,2}[/-]\d{2,4}\b: each count greedy, the last varying first
DayFirstDateAt(t, p) ==
    FirstShape(t, p, <<<<2, 2, 4>>, <<2, 2, 3>>, <<2, 2, 2>>,
                       <<2, 1, 4>>, <<2, 1, 3>>, <<2, 1, 2>>,
                       <<1, 2, 4>>, <<1, 2, 3>>, <<1, 2, 2>>,
                       <<1, 1, 4>>, <<1, 1, 3>>, <<1, 1, 2>>>>)

\* \b\d{4}[/-]\d{1,2}[/-]\d{1,2}\b
YearFirstDateAt(t, p) ==
    FirstShape(t, p, <<<<4, 2, 2>>, <<4, 2, 1>>, <<4, 1, 2>>, <<4, 1, 1>>>>)

\* combined_pattern at index p: the first alternative that matches wins
CombinedAt(t, p) ==
    IF NumberAt(t, p) # 0 THEN NumberAt(t, p)
    ELSE IF DayFirstDateAt(t, p) # 0 THEN DayFirstDateAt(t, p)
    ELSE YearFirstDateAt(t, p)

RECURSIVE CombinedFrom(_, _, _)
\* ends[p]: the index after the match at p, 0 where the pattern does not match
CombinedFrom(t, ends, p) ==
    IF \A q \in p..Len(t) : ends[q] = 0 THEN <<>>
    ELSE LET q == CHOOSE q \in p..Len(t) :
                     ends[q] # 0 /\ \A r \in p..(q - 1) : ends[r] = 0
         IN <<SubSeq(t, q, ends[q] - 1)>> \o CombinedFrom(t, ends, ends[q])

\* [match.group() for match in re.finditer(combined_pattern, text)]
combined_matches(t) == CombinedFrom(t, [p \in 1..Len(t) |-> CombinedAt(t, p)], 1)

\* '/' in matched_text or '-' in matched_text
is_date(m) == \E i \in 1..Len(m) : m[i] \in {"/", "-"}

\* len(matched_text) == 4 and matched_text.startswith(('19', '20'))
is_year(m) == Len(m) = 4 /\ SubSeq(m, 1, 2) \in {<<"1", "9">>, <<"2", "0">>}

numbers(t) == SelectSeq(combined_matches(t), LAMBDA m : ~is_date(m))

dates(t) == SelectSeq(combined_matches(t), LAMBDA m : is_date(m))

years(t) == {m \in Range(numbers(t)) : is_year(m)}

\* list(years)[:20]: a set is listed in an order the run does not fix, so any
\* YearsCap of the years can be the ones kept; the list is kept as the set of
\* its entries
years_found_choices(t) ==
    IF Cardinality(years(t)) <= YearsCap THEN {years(t)}
    ELSE {ys \in SUBSET years(t) : Cardinality(ys) = YearsCap}

extract_numbers_and_dates(t, ys) ==
    [numbers_count |-> Len(numbers(t)),
     dates_count |-> Len(dates(t)),
     years_found |-> ys]

\* ----------------------------------------------------------- generate_report
\* The report, as the values its lines are rendered from, in the order of the
\* lines.  analysis, sections and numerical_data are the results passed in.
report_of(pdf_path, t, npages, an, secs, nd) ==
    [document |-> pdf_path,
     total_pages |-> npages,
     word_count |-> an.word_count,
     unique_words |-> an.unique_words,
     char_count |-> an.char_count,
     char_count_no_spaces |-> an.char_count_no_spaces,
     sentence_count |-> an.sentence_count,
     paragraph_count |-> an.paragraph_count,
     avg_word_length |-> an.avg_word_length,
     avg_sentence_length |-> an.avg_sentence_length,
     top_words |-> an.top_words,
     found_sections |->
         LET found == SelectSeq(SectionNames, LAMBDA n : secs[n].found)
         IN [i \in 1..Len(found) |-> <<found[i], secs[found[i]].occurrences>>],
     numbers_count |-> nd.numbers_count,
     dates_count |-> nd.dates_count,
     years |-> nd.years_found,
     preview |-> strip(SubSeq(t, 1, IF Len(t) < PreviewLen THEN Len(t) ELSE PreviewLen)),
     ellipsis |-> Len(t) > PreviewLen]

\* has_output without the test: the file is always written
has_output_always(path) == TRUE

\* "if output_file:" - neither None nor the empty string
has_output(path) == path # None /\ path # ""

\* --------------------------------------------------------------- the inputs
RECURSIVE Concats(_, _)
\* the concatenations of at most n of the given fragments
Concats(chunks, n) ==
    IF n = 0 THEN {<<>>}
    ELSE LET shorter == Concats(chunks, n - 1)
         IN shorter \cup {s \o c : s \in shorter, c \in chunks}

\* words, stop words, short words, punctuation-only tokens, sentence and
\* paragraph separators
StatChunks ==
    {<<"c", "a", "t", " ">>, <<"D", "o", "g", ",", " ">>, <<"T", "h", "e", " ">>, <<"a", "b", " ">>, <<".", ".", ".", " ">>, <<"d", "o", "g", ".">>, <<"\n", "\n">>}

\* section synonyms alone, in capitals, and as parts of longer words
SectionChunks ==
    {<<"I", "n", "t", "r", "o", "d", "u", "c", "t", "i", "o", "n", " ">>, <<"i", "n", "t", "r", "o", "d", "u", "c", "t", "i", "o", "n">>, <<"m", "e", "t", "h", "o", "d">>, <<"s", " ">>, <<"o", "l", "o", "g", "y", " ">>,
     <<"d", "i", "s">>, <<"c", "l", "o", "s", "i", "n", "g", " ">>}

\* numbers, percentages, years and dates
NumberChunks ==
    {<<"0", "1", "/">>, <<"0", "2", "/">>, <<"2", "0", "2", "0">>, <<"1", "9", "9", "9", " ">>, <<"4", "5">>, <<".", "5">>, <<"%", " ">>}

ExampleSentence ==
    <<"T", "h", "e", " ", "y", "e", "a", "r", " ", "1", "9", "9", "9", " ", "a", "n", "d", " ", "2", "0", "2", "3", " ", "a", "p", "p", "e", "a", "r", "e", "d", ",", " ", "o", "n", " ", "0", "1", "/", "0", "2", "/", "2", "0", "2", "0", ",", " ", "w", "i", "t", "h", " ", "4", "5", ".", "5", "%", " ", "g", "r", "o", "w", "t", "h", ".">>

\* the k-th of a family of distinct three-letter words, none a stop word
KeyWord(k) == <<"w", LowerSeq[(k \div 26) + 1], LowerSeq[(k % 26) + 1]>>

RECURSIVE KeyWords(_, _)
\* KeyWord(from), ..., KeyWord(to), each followed by a blank
KeyWords(from, to) ==
    IF from > to THEN <<>>
    ELSE KeyWord(from) \o <<" ">> \o KeyWords(from + 1, to)

\* texts of n distinct key words (n around TopN), then two of them repeated,
\* a stop word and a short word
LongTextsOf(n) ==
    {KeyWords(1, n) \o KeyWord(r1) \o <<" ">> \o KeyWord(r2) \o <<" ", "t", "h", "e", " ", "a", "b">> :
        r1 \in {2, n}, r2 \in {n - 1, n}}

LongTexts == UNION {LongTextsOf(n) : n \in (TopN - 1)..(TopN + 2)}

Texts ==
    Concats(StatChunks, MaxChunks) \cup Concats(SectionChunks, MaxChunks)
        \cup Concats(NumberChunks, MaxChunks) \cup LongTexts \cup {ExampleSentence}

\* what page.extract_text() can return for a page
PageTexts == {<<>>, <<" ">>, <<"\n">>, <<"c", "a", "t">>, <<"I", "n", "t", "r", "o", "d", "u", "c", "t", "i", "o", "n", " ", "2", "0", "2", "0">>}

RECURSIVE PageSeqs(_)
\* the documents of at most n pages, as the sequence of their pages' texts
PageSeqs(n) ==
    IF n = 0 THEN {<<>>}
    ELSE LET shorter == PageSeqs(n - 1)
         IN shorter \cup {Append(ps, p) : ps \in shorter, p \in PageTexts}

RECURSIVE join_lines(_)
\* '\n'.join(text)
join_lines(ps) ==
    IF ps = <<>> THEN <<>>
    ELSE IF Len(ps) = 1 THEN ps[1]
    ELSE ps[1] \o <<"\n">> \o join_lines(Tail(ps))

\* the values of output_file: not given, the empty string, a path
OutputArgs == {None, "", "report.txt"}

\* the values of --extract-text (args.extract_text)
ExtractArgs == {None, "text.txt"}

PdfPath == "document.pdf"

\* ---------------------------------------------------------------- the state
VARIABLES
    pc,              \* the position of the run
    args,            \* main's parsed arguments: output and extract_text
    text,            \* the extracted text
    pages,           \* total_pages
    analysis,        \* <<>> until analyze_text returned, then <<its result>>
    sections,        \* the same for find_key_sections
    numerical_data,  \* the same for extract_numbers_and_dates
    output_file,     \* the output_file generate_report was called with
    invoked,         \* the functions called so far
    stdout,          \* the messages printed, in order
    printed,         \* the report texts printed, in order
    report_file,     \* the report file: whether it exists, and its content
    text_file,       \* the extracted-text file
    exit_code        \* the exit status: -1 while running

vars ==
    <<pc, args, text, pages, analysis, sections, numerical_data, output_file,
      invoked, stdout, printed, report_file, text_file, exit_code>>

NoFile == [exists |-> FALSE, content |-> <<>>]

\* nothing has been computed, printed or written
Fresh ==
    /\ analysis = <<>>
    /\ sections = <<>>
    /\ numerical_data = <<>>
    /\ output_file = None
    /\ invoked = {}
    /\ stdout = <<>>
    /\ printed = <<>>
    /\ report_file = NoFile
    /\ text_file = NoFile
    /\ exit_code = -1

\* main(), after parse_args
InitMain ==
    /\ Fresh
    /\ pc = "start"
    /\ args \in [output : OutputArgs, extract_text : ExtractArgs]
    /\ text = <<>>
    /\ pages = 0

\* programmatic use (example_usage.py, example_full_report): a text has been
\* extracted, of any content, and the analysis functions are called on it
Init ==
    /\ Fresh
    /\ pc = "analyze"
    /\ args = [output |-> None, extract_text |-> None]
    /\ text \in Texts
    /\ pages = 1

\* sys.exit(code) after printing msg
Exit(msg, code) ==
    /\ stdout' = Append(stdout, msg)
    /\ exit_code' = code
    /\ pc' = "exit"

\* if not os.path.exists(args.pdf_file): ... sys.exit(1)
MainFileMissing ==
    /\ pc = "start"
    /\ Exit("Error: PDF file not found", 1)
    /\ UNCHANGED <<args, text, pages, analysis, sections, numerical_data,
                   output_file, invoked, printed, report_file, text_file>>

MainFileExists ==
    /\ pc = "start"
    /\ pc' = "extract"
    /\ stdout' = Append(stdout, "Analyzing PDF")
    /\ UNCHANGED <<args, text, pages, analysis, sections, numerical_data,
                   output_file, invoked, printed, report_file, text_file, exit_code>>

\* extract_text_from_pdf: the pages' texts joined by newlines, and their number
ExtractOk ==
    /\ pc = "extract"
    /\ \E ps \in PageSeqs(MaxPages) :
          /\ text' = join_lines(ps)
          /\ pages' = Len(ps)
    /\ pc' = "check_empty"
    /\ stdout' = Append(stdout, "Processing pages...")
    /\ invoked' = invoked \cup {"extract_text_from_pdf"}
    /\ UNCHANGED <<args, analysis, sections, numerical_data, output_file, printed,
                   report_file, text_file, exit_code>>

\* extract_text_from_pdf: except ImportError / except Exception: sys.exit(1)
ExtractFail ==
    /\ pc = "extract"
    /\ \E msg \in {"Error: PyPDF2 not installed", "Error extracting text from PDF"} :
          Exit(msg, 1)
    /\ invoked' = invoked \cup {"extract_text_from_pdf"}
    /\ UNCHANGED <<args, text, pages, analysis, sections, numerical_data,
                   output_file, printed, report_file, text_file>>

\* no_text as "if not text:" would have it: only the empty text counts
no_text_unstripped(t) == t = <<>>

\* the condition of "if not text.strip():"
no_text(t) == ~strip_nonempty(t)

MainNoText ==
    /\ pc = "check_empty"
    /\ no_text(text)
    /\ Exit("Warning: No text could be extracted from the PDF.", 1)
    /\ UNCHANGED <<args, text, pages, analysis, sections, numerical_data,
                   output_file, invoked, printed, report_file, text_file>>

MainHasText ==
    /\ pc = "check_empty"
    /\ ~no_text(text)
    /\ pc' = "analyze"
    /\ stdout' = Append(stdout, "Performing text analysis...")
    /\ UNCHANGED <<args, text, pages, analysis, sections, numerical_data,
                   output_file, invoked, printed, report_file, text_file, exit_code>>

\* analysis = analyze_text(text)
CallAnalyzeText ==
    /\ pc = "analyze"
    /\ analysis' = <<analyze_text(text)>>
    /\ invoked' = invoked \cup {"analyze_text"}
    /\ pc' = "sections"
    /\ UNCHANGED <<args, text, pages, sections, numerical_data, output_file,
                   stdout, printed, report_file, text_file, exit_code>>

\* sections = find_key_sections(text)
CallFindKeySections ==
    /\ pc = "sections"
    /\ sections' = <<find_key_sections(text)>>
    /\ invoked' = invoked \cup {"find_key_sections"}
    /\ pc' = "numbers"
    /\ UNCHANGED <<args, text, pages, analysis, numerical_data, output_file,
                   stdout, printed, report_file, text_file, exit_code>>

\* numerical_data = extract_numbers_and_dates(text)
CallExtractNumbersAndDates ==
    /\ pc = "numbers"
    /\ \E ys \in years_found_choices(text) :
          numerical_data' = <<extract_numbers_and_dates(text, ys)>>
    /\ invoked' = invoked \cup {"extract_numbers_and_dates"}
    /\ pc' = "report"
    /\ UNCHANGED <<args, text, pages, analysis, sections, output_file, stdout,
                   printed, report_file, text_file, exit_code>>

\* report_text = '\n'.join(report)
report_text ==
    report_of(PdfPath, text, pages, analysis[1], sections[1], numerical_data[1])

\* generate_report(..., output_file = path), up to and including
\* print(report_text) and the test of output_file
GenerateReportPrint(path) ==
    /\ pc = "report"
    /\ output_file' = path
    /\ invoked' = invoked \cup {"generate_report"}
    /\ printed' = Append(printed, report_text)
    /\ stdout' = Append(stdout, "report")
    /\ pc' = IF has_output(path) THEN "write" ELSE "report_done"
    /\ UNCHANGED <<args, text, pages, analysis, sections, numerical_data,
                   report_file, text_file, exit_code>>

\* example_usage.py: generate_report(...) with or without an output file
CallGenerateReport == \E path \in OutputArgs : GenerateReportPrint(path)

\* main: generate_report(args.pdf_file, ..., numerical_data, args.output)
MainGenerateReport == GenerateReportPrint(args.output)

\* with open(output_file, 'w') as f: f.write(report_text); print(saved)
GenerateReportWrite ==
    /\ pc = "write"
    /\ report_file' = [exists |-> TRUE, content |-> <<report_text>>]
    /\ stdout' = Append(stdout, "Report saved to")
    /\ pc' = "report_done"
    /\ UNCHANGED <<args, text, pages, analysis, sections, numerical_data,
                   output_file, invoked, printed, text_file, exit_code>>

\* open or write raises OSError: nothing catches it, the call (and the run)
\* ends with the error; the file is untouched (open failed) or left empty
GenerateReportWriteFails ==
    /\ pc = "write"
    /\ report_file' \in {report_file, [exists |-> TRUE, content |-> <<>>]}
    /\ exit_code' = 1
    /\ pc' = "error"
    /\ UNCHANGED <<args, text, pages, analysis, sections, numerical_data,
                   output_file, invoked, stdout, printed, text_file>>

\* if args.extract_text: save_extracted_text(text, args.extract_text)
MainSaveText ==
    /\ pc = "report_done"
    /\ args.extract_text # None
    /\ invoked' = invoked \cup {"save_extracted_text"}
    /\ \/ /\ text_file' = [exists |-> TRUE, content |-> <<text>>]
          /\ stdout' = Append(stdout, "Extracted text saved to")
          /\ exit_code' = 0
          /\ pc' = "exit"
       \/ /\ text_file' \in {text_file, [exists |-> TRUE, content |-> <<>>]}
          /\ stdout' = stdout
          /\ exit_code' = 1
          /\ pc' = "error"
    /\ UNCHANGED <<args, text, pages, analysis, sections, numerical_data,
                   output_file, printed, report_file>>

\* main returns
MainEnd ==
    /\ pc = "report_done"
    /\ args.extract_text = None
    /\ exit_code' = 0
    /\ pc' = "exit"
    /\ UNCHANGED <<args, text, pages, analysis, sections, numerical_data,
                   output_file, invoked, stdout, printed, report_file, text_file>>

Next ==
    \/ CallAnalyzeText
    \/ CallFindKeySections
    \/ CallExtractNumbersAndDates
    \/ CallGenerateReport
    \/ GenerateReportWrite
    \/ GenerateReportWriteFails

Spec == Init /\ [][Next]_vars

NextMain ==
    \/ MainFileMissing
    \/ MainFileExists
    \/ ExtractOk
    \/ ExtractFail
    \/ MainNoText
    \/ MainHasText
    \/ CallAnalyzeText
    \/ CallFindKeySections
    \/ CallExtractNumbersAndDates
    \/ MainGenerateReport
    \/ GenerateReportWrite
    \/ GenerateReportWriteFails
    \/ MainSaveText
    \/ MainEnd

SpecMain == InitMain /\ [][NextMain]_vars

\* ------------------------------------------------------------- the claims
Analyzed == "analyze_text" \in invoked

SectionsFound == "find_key_sections" \in invoked

NumbersExtracted == "extract_numbers_and_dates" \in invoked

\* the normalized token stream of the text
Tokens == clean_words(text)

\* the number of tokens equal to each token of the stream
TokenCounts(toks) ==
    [w \in Range(toks) |-> Cardinality({i \in 1..Len(toks) : toks[i] = w})]

\* the index at which each token of the stream is first seen
FirstSeen(toks) ==
    [w \in Range(toks) |->
        CHOOSE i \in 1..Len(toks) : toks[i] = w /\ \A j \in 1..(i - 1) : toks[j] # w]

\* the words that qualify for the ranking
Qualifying(toks) == {w \in Range(toks) : w \notin stop_words /\ Len(w) > 2}

Listed(tw) == {tw[i][1] : i \in 1..Len(tw)}

\* the text is, from index p to its end q - 1, digits, separator, digits,
\* separator, digits, with a, b and c digits, between word boundaries
DateTokenAt(t, p, q) ==
    \/ \E a \in 1..2, b \in 1..2, c \in {2, 4} : DateShapeAt(t, p, a, b, c) = q
    \/ \E b \in 1..2, c \in 1..2 : DateShapeAt(t, p, 4, b, c) = q

\* C1: every date-shaped token between word boundaries is classified as one
\* date: a text with such a token has dates_count >= 1, a text that is one such
\* token has dates_count = 1, numbers_count = 0 and no year; on the example
\* sentence 01/02/2020 is a date, 1999 and 2023 are years and 2020 is not.
C1_DateTokensAreDates ==
    NumbersExtracted =>
        LET nd == numerical_data[1]
        IN /\ (\E p \in 1..Len(text), q \in 1..(Len(text) + 1) : DateTokenAt(text, p, q))
                  => nd.dates_count >= 1
           /\ DateTokenAt(text, 1, Len(text) + 1)
                  => nd.dates_count = 1 /\ nd.numbers_count = 0 /\ nd.years_found = {}
           /\ text = ExampleSentence
                  => /\ nd.dates_count >= 1
                     /\ {<<"1", "9", "9", "9">>, <<"2", "0", "2", "3">>} \subseteq nd.years_found
                     /\ <<"2", "0", "2", "0">> \notin nd.years_found

\* a synonym of the section stands at index p, any case
SynonymAt(name, p) ==
    \E a \in 1..Len(patterns[name]) :
        /\ p + Len(patterns[name][a]) - 1 <= Len(text)
        /\ lower(SubSeq(text, p, p + Len(patterns[name][a]) - 1)) = patterns[name][a]

\* a synonym of the section stands at index p as a whole word
WholeWordAt(name, p) ==
    \E a \in 1..Len(patterns[name]) :
        /\ p + Len(patterns[name][a]) - 1 <= Len(text)
        /\ lower(SubSeq(text, p, p + Len(patterns[name][a]) - 1)) = patterns[name][a]
        /\ ~IsWordAt(text, p - 1)
        /\ ~IsWordAt(text, p + Len(patterns[name][a]))

\* C2: a synonym counts only as a whole word: found is true exactly when a
\* synonym occurs as a whole word, and occurrences counts only such occurrences.
C2_WholeWordsOnly ==
    SectionsFound =>
        \A name \in Range(SectionNames) :
            LET whole == {p \in 1..Len(text) : WholeWordAt(name, p)}
                rec == sections[1][name]
            IN /\ rec.found <=> whole # {}
               /\ rec.found => rec.occurrences = Cardinality(whole)

\* the length of the match that starts at p: that of the first synonym, in
\* the pattern's order, that stands there
MatchLen(name, p) ==
    LET alts == patterns[name]
        a == CHOOSE a \in 1..Len(alts) :
                 /\ p + Len(alts[a]) - 1 <= Len(text)
                 /\ lower(SubSeq(text, p, p + Len(alts[a]) - 1)) = alts[a]
                 /\ \A b \in 1..(a - 1) :
                       ~(/\ p + Len(alts[b]) - 1 <= Len(text)
                         /\ lower(SubSeq(text, p, p + Len(alts[b]) - 1)) = alts[b])
    IN Len(alts[a])

\* the non-overlapping matches: the starts taken from left to right, a start
\* inside an earlier taken match left out
NonOverlapping(name) ==
    LET starts == {p \in 1..Len(text) : SynonymAt(name, p)}
        Covered(P, q) == \E p \in P : p < q /\ q < p + MatchLen(name, p)
    IN CHOOSE P \in SUBSET starts :
           \A q \in starts : q \in P <=> ~Covered(P, q)

TwoIntroductions == <<"I", "n", "t", "r", "o", "d", "u", "c", "t", "i", "o", "n", " ", "i", "n", "t", "r", "o", "d", "u", "c", "t", "i", "o", "n">>

\* C3: for each section, found holds exactly when a synonym occurs in the
\* text in any case, occurrences is the number of non-overlapping matches and
\* first_position the 0-based offset of the earliest; on "Introduction
\* introduction" introduction is found twice and no other section is found.
C3_SectionRecords ==
    SectionsFound =>
        /\ \A name \in Range(SectionNames) :
              LET starts == {p \in 1..Len(text) : SynonymAt(name, p)}
                  rec == sections[1][name]
              IN /\ rec.found <=> starts # {}
                 /\ rec.found =>
                       /\ rec.occurrences = Cardinality(NonOverlapping(name))
                       /\ rec.first_position + 1 \in starts
                       /\ \A p \in starts : rec.first_position + 1 <= p
        /\ text = TwoIntroductions =>
              /\ sections[1]["introduction"].found
              /\ sections[1]["introduction"].occurrences = 2
              /\ \A name \in Range(SectionNames) \ {"introduction"} :
                    ~sections[1][name].found

\* a section is found in a text that has its synonym in capitals and in
\* small letters
C3_Witness ==
    /\ SectionsFound
    /\ text = TwoIntroductions
    /\ sections[1]["introduction"].found

\* C4: in top_words the counts never rise, of two listed words with equal
\* counts the one first seen earlier in the token stream stands first, and a
\* qualifying word left out has neither a higher count than a listed word nor
\* the same count and an earlier first occurrence.
C4_TopWordsOrder ==
    Analyzed =>
        LET tw == analysis[1].top_words
            toks == Tokens
            count == TokenCounts(toks)
            first == FirstSeen(toks)
        IN /\ \A i, j \in 1..Len(tw) :
                 i < j =>
                    /\ tw[i][2] >= tw[j][2]
                    /\ tw[i][2] = tw[j][2] => first[tw[i][1]] < first[tw[j][1]]
           /\ \A w \in Qualifying(toks) \ Listed(tw) :
                 \A i \in 1..Len(tw) :
                    /\ count[w] <= tw[i][2]
                    /\ count[w] = tw[i][2] => first[tw[i][1]] < first[w]

\* more words qualify than are listed, a listed word was seen after a word
\* with a lower count, and two listed words tie
C4_Witness ==
    /\ Analyzed
    /\ LET tw == analysis[1].top_words
           toks == Tokens
           first == FirstSeen(toks)
       IN /\ Cardinality(Qualifying(toks)) > TopN
          /\ Qualifying(toks) \ Listed(tw) # {}
          /\ \E i, j \in 1..Len(tw) : i < j /\ tw[i][2] = tw[j][2]
          /\ \E i, j \in 1..Len(tw) :
                i < j /\ tw[i][2] > tw[j][2] /\ first[tw[i][1]] > first[tw[j][1]]

\* C5: tokens that are empty after the stripping are discarded: unique_words
\* counts the distinct non-empty tokens, and avg_word_length is the length of
\* the non-empty tokens over their number, 0 when there is none.
C5_EmptyTokensDiscarded ==
    Analyzed =>
        LET kept == SelectSeq(Tokens, LAMBDA w : w # <<>>)
            avg == analysis[1].avg_word_length
        IN /\ analysis[1].unique_words = Cardinality(Range(kept))
           /\ avg.den # 0
           /\ IF Len(kept) > 0
              THEN avg.num * Len(kept) = SumLen(kept) * avg.den
              ELSE avg.num = 0

Analyzers ==
    {"analyze_text", "find_key_sections", "extract_numbers_and_dates",
     "generate_report", "save_extracted_text"}

Extracted == \E i \in 1..Len(stdout) : stdout[i] = "Processing pages..."

HasVisibleChar(t) == \E i \in 1..Len(t) : t[i] \notin {" ", "\n", "\t"}

\* C6: once main has extracted a text that is empty or all whitespace, the
\* run ends with the warning and a non-zero exit status and calls none of
\* analyze_text, find_key_sections, extract_numbers_and_dates,
\* generate_report, save_extracted_text; main calls these only on a text
\* with a character that is not whitespace.
C6_NoAnalysisOfEmptyText ==
    /\ invoked \cap Analyzers # {} => HasVisibleChar(text)
    /\ (Extracted /\ ~HasVisibleChar(text)) =>
          /\ invoked \cap Analyzers = {}
          /\ pc \in {"check_empty", "exit"}
          /\ pc = "exit" =>
                /\ exit_code # 0
                /\ stdout[Len(stdout)] = "Warning: No text could be extracted from the PDF."

\* a run on a document whose pages hold only whitespace has ended with the warning
C6_Witness ==
    /\ pc = "exit"
    /\ Extracted
    /\ text # <<>>
    /\ ~HasVisibleChar(text)
    /\ exit_code = 1

\* C7: generate_report prints the whole report before it tries to write the
\* file, writes the file only when an output path was given, writes there
\* the text it printed, and a failing write comes after the print and leaves
\* the analysis, sections and numerical data as they were.
C7_PrintBeforeWrite ==
    /\ [](/\ pc \in {"write", "error"} =>
                /\ printed # <<>>
                /\ printed[Len(printed)] = report_text
          /\ report_file.exists =>
                /\ output_file # None
                /\ printed # <<>>
          /\ report_file.content # <<>> =>
                report_file.content = <<printed[Len(printed)]>>)
    /\ [][pc = "write" => UNCHANGED <<analysis, sections, numerical_data, printed>>]_vars

\* the report file was written, or the write failed after the print
C7_Witness ==
    /\ printed # <<>>
    /\ \/ report_file.content # <<>>
       \/ pc = "error"
    /\ text # <<>>

Zero(q) == q.num = 0 /\ q.den # 0

\* C8: on the empty text analyze_text returns 0 for word_count,
\* sentence_count, paragraph_count, unique_words, avg_word_length and
\* avg_sentence_length and no top word, find_key_sections reports no section
\* found, extract_numbers_and_dates returns 0, 0 and no year.
C8_EmptyText ==
    text = <<>> =>
        /\ Analyzed =>
              /\ analysis[1].word_count = 0
              /\ analysis[1].sentence_count = 0
              /\ analysis[1].paragraph_count = 0
              /\ analysis[1].unique_words = 0
              /\ analysis[1].top_words = <<>>
              /\ Zero(analysis[1].avg_word_length)
              /\ Zero(analysis[1].avg_sentence_length)
        /\ SectionsFound =>
              \A name \in Range(SectionNames) : ~sections[1][name].found
        /\ NumbersExtracted =>
              /\ numerical_data[1].numbers_count = 0
              /\ numerical_data[1].dates_count = 0
              /\ numerical_data[1].years_found = {}

\* the three functions have returned on the empty text
C8_Witness ==
    /\ text = <<>>
    /\ Analyzed
    /\ SectionsFound
    /\ NumbersExtracted

\* C9: 0 <= unique_words <= word_count, and avg_sentence_length is
\* word_count / sentence_count when sentence_count > 0 and 0 otherwise.
C9_CountsAndAverage ==
    Analyzed =>
        LET an == analysis[1]
        IN /\ 0 <= an.unique_words
           /\ an.unique_words <= an.word_count
           /\ an.avg_sentence_length.den # 0
           /\ IF an.sentence_count > 0
              THEN an.avg_sentence_length.num * an.sentence_count
                       = an.word_count * an.avg_sentence_length.den
              ELSE an.avg_sentence_length.num = 0

\* a text of several sentences with a repeated word
C9_Witness ==
    /\ Analyzed
    /\ analysis[1].word_count > 1
    /\ analysis[1].sentence_count > 1
    /\ analysis[1].unique_words < analysis[1].word_count

\* C10: top_words has at most 30 entries, none a stop word or of length 2 or
\* less, each with the number of tokens equal to the word as its count;
\* unique_words counts all distinct tokens, stop words and short ones included.
C10_TopWordsFilter ==
    Analyzed =>
        LET tw == analysis[1].top_words
            toks == Tokens
            count == TokenCounts(toks)
        IN /\ Len(tw) <= 30
           /\ \A i \in 1..Len(tw) :
                 /\ tw[i][1] \notin stop_words
                 /\ Len(tw[i][1]) > 2
                 /\ tw[i][1] \in Range(toks)
                 /\ tw[i][2] = count[tw[i][1]]
           /\ analysis[1].unique_words = Cardinality(Range(toks))

\* thirty words are listed of more that qualify, and the text has a stop word
\* and a short word that unique_words counts
C10_Witness ==
    /\ Analyzed
    /\ Len(analysis[1].top_words) = TopN
    /\ LET toks == Tokens
       IN /\ Cardinality(Qualifying(toks)) > TopN
          /\ \E w \in Range(toks) : w \in stop_words
          /\ \E w \in Range(toks) : w \notin stop_words /\ Len(w) <= 2
          /\ analysis[1].unique_words >= Cardinality(Qualifying(toks)) + 2

====
